---- MODULE Spec2Model ----
(***************************************************************************)
(* The interview state machine of react_agent/graph.py: the graph          *)
(* answer_analysis -> select_question -> interview_agent ->                *)
(* {tools -> interview_agent | __end__}, run once per turn on a session's  *)
(* InterviewState.  Every Language Model Service reply is an input chosen  *)
(* by \E in the action that makes the call.                                *)
(***************************************************************************)
EXTENDS Integers, Sequences, FiniteSets, TLC

VARIABLES
    bank,                 \* BIOGRAPHICAL_QUESTIONS: the priorities, in source order (id = position)
    messages,             \* state.messages, the transcript
    questions,            \* state.questions, id -> record; <<>> is the empty mapping
    current_question_id,  \* state.current_question_id, NoQuestion for None
    finished,             \* state.finished
    pc,                   \* the node of the graph that runs next; "idle" between turns
    step,                 \* nodes already executed in this turn (the runtime's step count)
    turns,                \* turns started so far
    last,                 \* what the node that ran last did: its return branch, its model call,
                          \* and the status the current record had before it ran
    parked                \* the InterviewState of the other session, which waits between two
                          \* of its turns; NoSession where one session is followed alone

vars == <<bank, messages, questions, current_question_id, finished, pc, step, turns, last,
          parked>>

-----------------------------------------------------------------------------
(* Bounds of the model *)

MaxBank == 2          \* questions in the bank
MaxTurns == 4         \* turns of one session
StepBudget == 4       \* the runtime's step budget of one turn
MaxReruns == 1        \* turns of one session run on an unchanged transcript
OutOfRange == 6       \* a priority level that is not in PRIORITIES

-----------------------------------------------------------------------------
(* Constants of the program *)

NoQuestion == 0

\* Variant: the list has one more level.
PRIORITIES_extended == <<0, 1, 2, 3, 4, 5, OutOfRange>>

\* Variant: the levels are listed from the least urgent one.
PRIORITIES_descending == <<5, 4, 3, 2, 1, 0>>

PRIORITIES == <<0, 1, 2, 3, 4, 5>>

\* The levels a bank of the model draws from: two levels of PRIORITIES and one outside.
BankPriorities == {0, 1, OutOfRange}

Banks == UNION {[1..n -> BankPriorities] : n \in 0..MaxBank}

\* The personalised bank, in source order; ids are assigned sequentially from 1.
\* (The nodes call it with configuration.deceased_name, an argument the
\* definition in utils.py does not take; the call is modelled as returning the bank.)
get_personalized_questions == [i \in 1..Len(bank) |-> [id |-> i, priority |-> bank[i]]]

NoAnalysis == [text |-> "", note |-> FALSE]

\* The State a session starts from: every field at its default.
NewSession(id) ==
    [id |-> id, messages |-> <<>>, questions |-> <<>>, current_question_id |-> NoQuestion,
     finished |-> FALSE, turns |-> 0]

NoSession == NewSession(0)

\* The record both nodes build for a question of the bank when state.questions is empty.
InitialRecord(q) ==
    [priority |-> q.priority, status |-> "not_started", answers |-> <<>>, analysis |-> NoAnalysis]

\* Variant: the records are taken from the other session when it has built them.
EnsureInitialisedShared(qs) ==
    IF qs # <<>> THEN qs
    ELSE IF parked.questions # <<>> THEN parked.questions
    ELSE [i \in 1..Len(bank) |-> InitialRecord(get_personalized_questions[i])]

\* Variant: the records are built again on every access.
EnsureInitialisedAlways(qs) ==
    [i \in 1..Len(bank) |-> InitialRecord(get_personalized_questions[i])]

EnsureInitialised(qs) ==
    IF qs = <<>>
    THEN [i \in 1..Len(bank) |-> InitialRecord(get_personalized_questions[i])]
    ELSE qs

\* The status of record qid as the nodes see it: a record not built yet is
\* built not_started; "none" when there is no such record.
StatusOf(qs, qid) ==
    IF qid \in DOMAIN EnsureInitialised(qs) THEN EnsureInitialised(qs)[qid].status ELSE "none"

-----------------------------------------------------------------------------
(* Messages *)

HumanMessage(n) == [role |-> "human", kind |-> "user", tool_calls |-> FALSE, ref |-> n]
AIMessage(k, tc, r) == [role |-> "ai", kind |-> k, tool_calls |-> tc, ref |-> r]

\* The tools bound to the model, in the order of TOOLS.
TOOLS == <<"select_question", "list_questions", "end_interview">>

ToolNames == {TOOLS[i] : i \in 1..Len(TOOLS)}

\* The ToolMessage that holds the text a tool returned.
ToolMessage == [role |-> "tool", kind |-> "tool_result", tool_calls |-> FALSE, ref |-> 0]

\* user_messages of answer_analysis_node: the contents of the HumanMessages, in order.
UserMessages(msgs) ==
    LET h == SelectSeq(msgs, LAMBDA m : m.role = "human")
    IN  [i \in 1..Len(h) |-> h[i].ref]

-----------------------------------------------------------------------------
(* select_question_with_llm and select_question_node *)

\* What the Language Model Service can answer to the selection prompt: an
\* identifier (0 is a text that is no identifier of the bank) or a failure.
SelectionReplies ==
    {[ok |-> TRUE, id |-> i] : i \in 0..Len(bank)} \cup {[ok |-> FALSE, id |-> 0]}

Matches(available, reply) == {i \in 1..Len(available) : available[i].id = reply.id}

\* Variant: the fallback is the last candidate.
select_question_with_llm_last(available, reply) ==
    IF reply.ok /\ Matches(available, reply) # {}
    THEN available[CHOOSE i \in Matches(available, reply) :
                       \A j \in Matches(available, reply) : i <= j]
    ELSE available[Len(available)]

select_question_with_llm(available, reply) ==
    IF reply.ok /\ Matches(available, reply) # {}
    THEN available[CHOOSE i \in Matches(available, reply) :
                       \A j \in Matches(available, reply) : i <= j]
    ELSE available[1]

SelectionOutcome(available, reply) ==
    IF ~reply.ok THEN "failed"
    ELSE IF Matches(available, reply) # {} THEN "chosen" ELSE "unknown"

\* Variant: a partial current question is replaced too.
need_new_question_if_answered(cur, qs) ==
    \/ cur = NoQuestion
    \/ (cur \in DOMAIN qs /\ qs[cur].status \in {"partial", "complete"})

\* Variant: a complete current question is not replaced.
need_new_question_only_if_none(cur, qs) == cur = NoQuestion

\* Variant: a new question is selected on every run.
need_new_question_always(cur, qs) == TRUE

need_new_question(cur, qs) ==
    \/ cur = NoQuestion
    \/ (cur \in DOMAIN qs /\ qs[cur].status = "complete")

\* Variant: any() where the code says all().
any_complete(qs) == \E qid \in DOMAIN qs : qs[qid].status = "complete"

all_complete(qs) == \A qid \in DOMAIN qs : qs[qid].status = "complete"

\* Variant: the candidates are not filtered by status.
available_questions_any_status(qs, priority) ==
    SelectSeq(get_personalized_questions, LAMBDA q : q.priority = priority)

\* The candidates of one priority level, in source order.
available_questions(qs, priority) ==
    SelectSeq(get_personalized_questions,
              LAMBDA q : q.priority = priority /\ qs[q.id].status = "not_started")

\* Variant: the levels are walked from the last one down.
LastLevel(qs) ==
    LET S == {i \in 1..Len(PRIORITIES) : available_questions(qs, PRIORITIES[i]) # <<>>}
    IN  IF S = {} THEN 0 ELSE CHOOSE i \in S : \A j \in S : i >= j

\* The position in PRIORITIES of the first level that has a candidate, 0 if none has.
FirstLevel(qs) ==
    LET S == {i \in 1..Len(PRIORITIES) : available_questions(qs, PRIORITIES[i]) # <<>>}
    IN  IF S = {} THEN 0 ELSE CHOOSE i \in S : \A j \in S : i <= j

\* Variant: the threshold is off by one.
UsesModelFromTwo(msgs) == Len(msgs) >= 2

\* The threshold above which the transcript counts as conversation context.
UsesModel(msgs) == Len(msgs) > 2

\* "For the very first interaction, just initialize and pass through".
IsFirstInteraction(msgs) == Len(msgs) <= 1

\* Variant: the current question is left in place when the interview ends.
EndOfInterviewKeepingCurrent(questions_update, cur) ==
    [questions |-> questions_update, current_question_id |-> cur,
     finished |-> TRUE, ret |-> "all_complete", llm |-> "none"]

\* What the node returns when all questions are complete.
EndOfInterview(questions_update, cur) ==
    [questions |-> questions_update, current_question_id |-> NoQuestion,
     finished |-> TRUE, ret |-> "all_complete", llm |-> "none"]

select_question_node(msgs, qs, cur, fin, reply) ==
    LET questions_update == EnsureInitialised(qs)
        level == FirstLevel(questions_update)
        available == available_questions(questions_update, PRIORITIES[level])
        selected == IF UsesModel(msgs)
                    THEN select_question_with_llm(available, reply)
                    ELSE available[1]
    IN  IF IsFirstInteraction(msgs)
        THEN [questions |-> questions_update, current_question_id |-> cur,
              finished |-> fin, ret |-> "pass_through", llm |-> "none"]
        ELSE IF need_new_question(cur, questions_update)
        THEN IF all_complete(questions_update)
             THEN EndOfInterview(questions_update, cur)
             ELSE IF level # 0
             THEN [questions |-> [questions_update EXCEPT ![selected.id].status = "in_progress"],
                   current_question_id |-> selected.id,
                   finished |-> fin, ret |-> "selected",
                   llm |-> IF UsesModel(msgs) THEN SelectionOutcome(available, reply)
                           ELSE "none"]
             ELSE [questions |-> questions_update, current_question_id |-> cur,
                   finished |-> fin, ret |-> "no_candidate", llm |-> "none"]
        ELSE [questions |-> questions_update, current_question_id |-> cur,
              finished |-> fin, ret |-> "keep_current", llm |-> "none"]

-----------------------------------------------------------------------------
(* answer_analysis_node *)

CompleteAfter == 2

\* What the structured call can return: one of the three statuses of
\* AnswerAnalysis, or a failure.
AnalysisReplies == {"complete", "partial", "not_started", "fail"}

\* Variant: the fallback judgement is complete.
AnalysisResultFallbackComplete(reply) ==
    IF reply = "fail"
    THEN [status |-> "complete", brief_analysis |-> "Analysis error"]
    ELSE [status |-> reply, brief_analysis |-> "llm"]

\* analysis_result: the model's judgement, or the fallback judgement of the except branch.
AnalysisResult(reply) ==
    IF reply = "fail"
    THEN [status |-> "partial", brief_analysis |-> "Analysis error"]
    ELSE [status |-> reply, brief_analysis |-> "llm"]

\* Variant: the answers are counted before the new one is appended.
NewStatusCountBefore(result_status, total_answers) ==
    IF result_status = "complete" \/ total_answers - 1 >= CompleteAfter THEN "complete"
    ELSE IF result_status = "partial" THEN "partial"
    ELSE "in_progress"

\* Variant: the status follows the judgement alone, without the answer count.
NewStatusByJudgement(result_status, total_answers) ==
    IF result_status = "complete" THEN "complete"
    ELSE IF result_status = "partial" THEN "partial"
    ELSE "in_progress"

NewStatus(result_status, total_answers) ==
    IF result_status = "complete" \/ total_answers >= CompleteAfter THEN "complete"
    ELSE IF result_status = "partial" THEN "partial"
    ELSE "in_progress"

UpdateRecord(rec, latest_answer, result) ==
    LET answers == Append(rec.answers, latest_answer)
        total_answers == Len(answers)
    IN  [rec EXCEPT !.answers = answers,
                    !.analysis = [text |-> result.brief_analysis,
                                  note |-> total_answers >= CompleteAfter],
                    !.status = NewStatus(result.status, total_answers)]

answer_analysis_node(msgs, qs, cur, reply) ==
    LET questions_update == EnsureInitialised(qs)
        user_messages == UserMessages(msgs)
        latest_answer == user_messages[Len(user_messages)]
        result == AnalysisResult(reply)
    IN  IF user_messages = <<>> \/ cur = NoQuestion
        THEN [questions |-> questions_update, ret |-> "no_op", llm |-> "none"]
        ELSE [questions |->
                  IF cur \in DOMAIN questions_update
                  THEN [questions_update EXCEPT
                            ![cur] = UpdateRecord(questions_update[cur], latest_answer, result)]
                  ELSE questions_update,
              ret |-> "analysed",
              llm |-> IF reply = "fail" THEN "failed" ELSE reply]

-----------------------------------------------------------------------------
(* interview_agent, route_model_output, the tool node *)

\* What the Language Model Service can answer to interview_agent: a text, a
\* message that requests a call of one of the TOOLS, or a failure.
AgentReplies == {"text", "tool_calls", "fail"}

RequestsTools(reply) == reply = "tool_calls"

\* Variant: a failed call yields a text that is not the question.
contextualize_question_with_llm_no_fallback(qid, reply) ==
    IF reply = "fail"
    THEN AIMessage("reply", FALSE, 0)
    ELSE AIMessage("contextualized", FALSE, qid)

\* contextualize_question_with_llm: the model's rephrasing, or the question unchanged.
contextualize_question_with_llm(qid, reply) ==
    IF reply = "fail"
    THEN AIMessage("question", FALSE, qid)
    ELSE AIMessage("contextualized", FALSE, qid)

make_welcome_message == AIMessage("welcome", FALSE, 0)

\* The fixed thank-you message of end_interview_node; the builder adds no such node.
end_interview_node(msgs) ==
    [messages |-> Append(msgs, AIMessage("closing", FALSE, 0)), finished |-> TRUE]

\* Variant: the welcome is tied to an empty transcript.
IsFirstMessageOnEmpty(msgs) == Len(msgs) = 0

\* "Handle first message with welcome".
IsFirstMessage(msgs) == Len(msgs) = 1

\* Variant: a partial question is presented too.
HasQuestionToAskOrPartial(qs, cur) ==
    cur # NoQuestion /\ cur \in DOMAIN qs /\ qs[cur].status \in {"in_progress", "partial"}

\* "Check if we have a selected question to ask": it is in progress.
HasQuestionToAsk(qs, cur) ==
    cur # NoQuestion /\ cur \in DOMAIN qs /\ qs[cur].status = "in_progress"

\* Variant: the cutoff is missing.
NoCutoff(last_step, reply) == FALSE

\* "It's the last step and the model still wants to use a tool".
LastStepCutoff(last_step, reply) == last_step /\ RequestsTools(reply)

interview_agent(msgs, qs, cur, last_step, reply) ==
    IF IsFirstMessage(msgs)
    THEN [raised |-> FALSE, message |-> make_welcome_message, ret |-> "welcome", llm |-> "none"]
    ELSE IF HasQuestionToAsk(qs, cur)
    THEN IF Len(msgs) > 2
         THEN [raised |-> FALSE, message |-> contextualize_question_with_llm(cur, reply),
               ret |-> "question",
               llm |-> IF reply = "fail" THEN "failed" ELSE "answered"]
         ELSE [raised |-> FALSE, message |-> AIMessage("question", FALSE, cur),
               ret |-> "question", llm |-> "none"]
    ELSE IF reply = "fail"
    THEN [raised |-> TRUE, message |-> make_welcome_message, ret |-> "general", llm |-> "failed"]
    ELSE IF LastStepCutoff(last_step, reply)
    THEN [raised |-> FALSE, message |-> AIMessage("apology", FALSE, 0),
          ret |-> "general", llm |-> reply]
    ELSE [raised |-> FALSE,
          message |-> AIMessage("reply", RequestsTools(reply), 0),
          ret |-> "general", llm |-> reply]

\* Variant: the type of the last message is not checked.
route_model_output_unchecked(msgs) ==
    IF msgs = <<>> THEN "error"
    ELSE IF ~msgs[Len(msgs)].tool_calls THEN "idle"
    ELSE "tools"

\* Variant: the test of tool_calls is inverted.
route_model_output_inverted(msgs) ==
    IF msgs = <<>> \/ msgs[Len(msgs)].role # "ai" THEN "error"
    ELSE IF msgs[Len(msgs)].tool_calls THEN "idle"
    ELSE "tools"

route_model_output(msgs) ==
    IF msgs = <<>> \/ msgs[Len(msgs)].role # "ai" THEN "error"
    ELSE IF ~msgs[Len(msgs)].tool_calls THEN "idle"
    ELSE "tools"

\* end_interview: the tool returns its acknowledgement text, nothing else.
end_interview == ToolMessage

\* ToolNode(TOOLS): runs the tool the last assistant message names and appends
\* what it returns; no tool of TOOLS writes to the state.
tool_node(msgs, name) ==
    [messages |-> Append(msgs, IF name = "end_interview" THEN end_interview ELSE ToolMessage),
     ret |-> name]

\* Variant: the tool node leads back to the selector.
EdgeToolsToSelector(node) ==
    IF node = "__start__" THEN "answer_analysis"
    ELSE IF node = "answer_analysis" THEN "select_question"
    ELSE IF node = "select_question" THEN "interview_agent"
    ELSE "select_question"

\* The builder's unconditional edges.
Edge(node) ==
    IF node = "__start__" THEN "answer_analysis"
    ELSE IF node = "answer_analysis" THEN "select_question"
    ELSE IF node = "select_question" THEN "interview_agent"
    ELSE "interview_agent"

\* The flag the runtime supplies: true when this node execution exhausts the step budget.
is_last_step == step + 1 >= StepBudget

-----------------------------------------------------------------------------
(* The session *)

Init ==
    /\ bank \in Banks
    /\ messages = <<>>
    /\ questions = <<>>
    /\ current_question_id = NoQuestion
    /\ finished = FALSE
    /\ pc = "idle"
    /\ step = 0
    /\ turns = 0
    /\ last = [node |-> "none", ret |-> "none", llm |-> "none", before |-> "none"]
    /\ parked = NoSession

\* Turns that were run on an unchanged transcript so far: every other turn
\* added one user utterance.
Reruns == turns - Len(UserMessages(messages))

\* A turn starts: the graph is invoked on the session with a new user utterance.
UserTurn ==
    /\ pc = "idle"
    /\ turns < MaxTurns
    /\ messages' = Append(messages, HumanMessage(Len(UserMessages(messages)) + 1))
    /\ pc' = Edge("__start__")
    /\ step' = 0
    /\ turns' = turns + 1
    /\ last' = [node |-> "__start__", ret |-> "new", llm |-> "none", before |-> "none"]
    /\ UNCHANGED <<parked, bank, questions, current_question_id, finished>>

\* A turn starts on the transcript as it is (the graph is invoked again with no new message).
RerunTurn ==
    /\ pc = "idle"
    /\ 0 < turns /\ turns < MaxTurns
    /\ Reruns < MaxReruns
    /\ pc' = Edge("__start__")
    /\ step' = 0
    /\ turns' = turns + 1
    /\ last' = [node |-> "__start__", ret |-> "rerun", llm |-> "none", before |-> "none"]
    /\ UNCHANGED <<parked, bank, messages, questions, current_question_id, finished>>

AnalyzeAnswer ==
    /\ pc = "answer_analysis"
    /\ \E reply \in AnalysisReplies :
         LET r == answer_analysis_node(messages, questions, current_question_id, reply)
         IN  /\ questions' = r.questions
             /\ last' = [node |-> "answer_analysis", ret |-> r.ret, llm |-> r.llm,
                      before |-> StatusOf(questions, current_question_id)]
    /\ pc' = Edge("answer_analysis")
    /\ step' = step + 1
    /\ UNCHANGED <<parked, bank, messages, current_question_id, finished, turns>>

SelectQuestion ==
    /\ pc = "select_question"
    /\ \E reply \in SelectionReplies :
         LET r == select_question_node(messages, questions, current_question_id,
                                       finished, reply)
         IN  /\ questions' = r.questions
             /\ current_question_id' = r.current_question_id
             /\ finished' = r.finished
             /\ last' = [node |-> "select_question", ret |-> r.ret, llm |-> r.llm,
                      before |-> StatusOf(questions, current_question_id)]
    /\ pc' = Edge("select_question")
    /\ step' = step + 1
    /\ UNCHANGED <<parked, bank, messages, turns>>

Converse ==
    /\ pc = "interview_agent"
    /\ \E reply \in AgentReplies :
         LET r == interview_agent(messages, questions, current_question_id,
                                  is_last_step, reply)
         IN  /\ messages' = IF r.raised THEN messages ELSE Append(messages, r.message)
             /\ pc' = IF r.raised THEN "error" ELSE route_model_output(messages')
             /\ last' = [node |-> "interview_agent", ret |-> r.ret, llm |-> r.llm,
                      before |-> StatusOf(questions, current_question_id)]
    /\ step' = step + 1
    /\ UNCHANGED <<parked, bank, questions, current_question_id, finished, turns>>

ToolDispatch ==
    /\ pc = "tools"
    /\ \E name \in ToolNames :
         LET r == tool_node(messages, name)
         IN  /\ messages' = r.messages
             /\ last' = [node |-> "tools", ret |-> r.ret, llm |-> "none", before |-> "none"]
    /\ pc' = Edge("tools")
    /\ step' = step + 1
    /\ UNCHANGED <<parked, bank, questions, current_question_id, finished, turns>>

Next ==
    \/ UserTurn
    \/ RerunTurn
    \/ AnalyzeAnswer
    \/ SelectQuestion
    \/ Converse
    \/ ToolDispatch

Spec == Init /\ [][Next]_vars

-----------------------------------------------------------------------------
(* select_question_node on its own: the node run again and again on a *)
(* session state, with no other node in between                       *)

MaxTranscript == 3    \* entries of the transcript the selector is run on
SelectorRuns == 2     \* runs of the selector in a row

\* A transcript of n entries: the user's utterances alternate with the
\* assistant's messages, the first of which is the welcome message.
Transcript(n) ==
    [i \in 1..n |-> IF i % 2 = 1 THEN HumanMessage((i + 1) \div 2)
                    ELSE IF i = 2 THEN make_welcome_message
                    ELSE AIMessage("reply", FALSE, 0)]

Statuses == {"not_started", "in_progress", "partial", "complete"}

\* The record of a question of the bank in a given status, as the nodes leave it.
RecordIn(q, status) ==
    [priority |-> q.priority, status |-> status,
     answers |-> IF status \in {"partial", "complete"} THEN <<1>> ELSE <<>>,
     analysis |-> IF status \in {"partial", "complete"}
                  THEN [text |-> "llm", note |-> FALSE] ELSE NoAnalysis]

\* The session states the selector is run on: the records not built yet, or
\* built with the current question the only one in_progress or partial.
InitSelector ==
    /\ bank \in Banks
    /\ \E n \in 1..MaxTranscript : messages = Transcript(n)
    /\ \/ /\ questions = <<>>
          /\ current_question_id = NoQuestion
          /\ finished = FALSE
       \/ /\ \E st \in [1..Len(bank) -> Statuses] :
                questions = [i \in 1..Len(bank) |-> RecordIn(get_personalized_questions[i], st[i])]
          /\ current_question_id \in 0..Len(bank)
          /\ \A qid \in DOMAIN questions :
                /\ questions[qid].status \in {"in_progress", "partial"}
                       => qid = current_question_id
                /\ qid = current_question_id => questions[qid].status # "not_started"
          /\ finished \in BOOLEAN
          /\ finished => (current_question_id = NoQuestion /\ all_complete(questions))
    /\ pc = "select_question"
    /\ step = 0
    /\ turns = 1
    /\ last = [node |-> "none", ret |-> "none", llm |-> "none", before |-> "none"]
    /\ parked = NoSession

\* One run of select_question_node; `before` keeps the branch of the previous run.
SelectAgain ==
    /\ pc = "select_question"
    /\ step < SelectorRuns
    /\ \E reply \in SelectionReplies :
         LET r == select_question_node(messages, questions, current_question_id,
                                       finished, reply)
         IN  /\ questions' = r.questions
             /\ current_question_id' = r.current_question_id
             /\ finished' = r.finished
             /\ last' = [node |-> "select_question", ret |-> r.ret, llm |-> r.llm,
                         before |-> last.ret]
    /\ step' = step + 1
    /\ UNCHANGED <<parked, bank, messages, pc, turns>>

NextSelector == SelectAgain

SpecSelector == InitSelector /\ [][NextSelector]_vars

-----------------------------------------------------------------------------
(* route_model_output on its own: the routing function applied to any *)
(* transcript, also one that no run of the graph produces             *)

MaxRouted == 3        \* entries of the transcript the routing function is applied to

\* The messages such a transcript is made of.
RoutedMessages ==
    {HumanMessage(1), make_welcome_message, AIMessage("reply", FALSE, 0),
     AIMessage("reply", TRUE, 0), AIMessage("apology", FALSE, 0), ToolMessage}

InitRoute ==
    /\ bank = <<>>
    /\ messages \in UNION {[1..n -> RoutedMessages] : n \in 0..MaxRouted}
    /\ questions = <<>>
    /\ current_question_id = NoQuestion
    /\ finished = FALSE
    /\ pc = "route_model_output"
    /\ step = 0
    /\ turns = 1
    /\ last = [node |-> "none", ret |-> "none", llm |-> "none", before |-> "none"]
    /\ parked = NoSession

\* The conditional edge is evaluated: the route, or the error it raises.
RouteModelOutput ==
    /\ pc = "route_model_output"
    /\ pc' = route_model_output(messages)
    /\ last' = [node |-> "route_model_output", ret |-> pc', llm |-> "none", before |-> "none"]
    /\ UNCHANGED <<parked, bank, messages, questions, current_question_id, finished, step, turns>>

NextRoute == RouteModelOutput

SpecRoute == InitRoute /\ [][NextRoute]_vars

-----------------------------------------------------------------------------
(* The session of a user who answers: every turn brings a new utterance, *)
(* and the bank holds questions of the levels of PRIORITIES only         *)

InRange(b) == \A i \in 1..Len(b) : \E k \in 1..Len(PRIORITIES) : b[i] = PRIORITIES[k]

AnsweredBanks == {b \in Banks : b # <<>> /\ InRange(b)}

\* The turns such a session is followed for: two for each question and two more.
TurnLimit == 2 * Len(bank) + 2

InitAnswered ==
    /\ bank \in AnsweredBanks
    /\ messages = <<>>
    /\ questions = <<>>
    /\ current_question_id = NoQuestion
    /\ finished = FALSE
    /\ pc = "idle"
    /\ step = 0
    /\ turns = 0
    /\ last = [node |-> "none", ret |-> "none", llm |-> "none", before |-> "none"]
    /\ parked = NoSession

\* A turn starts with a new user utterance.
NewUtterance ==
    /\ pc = "idle"
    /\ turns < TurnLimit
    /\ messages' = Append(messages, HumanMessage(Len(UserMessages(messages)) + 1))
    /\ pc' = Edge("__start__")
    /\ step' = 0
    /\ turns' = turns + 1
    /\ last' = [node |-> "__start__", ret |-> "new", llm |-> "none", before |-> "none"]
    /\ UNCHANGED <<parked, bank, questions, current_question_id, finished>>

NextAnswered ==
    \/ NewUtterance
    \/ AnalyzeAnswer
    \/ SelectQuestion
    \/ Converse
    \/ ToolDispatch

SpecAnswered == InitAnswered /\ [][NextAnswered]_vars

-----------------------------------------------------------------------------
(* Two sessions on one bank: their turns are interleaved, one session runs *)
(* a turn while the other waits                                          *)

SessionTurns == 2     \* turns of each of the two sessions

InitSessions ==
    /\ bank \in Banks
    /\ messages = <<>>
    /\ questions = <<>>
    /\ current_question_id = NoQuestion
    /\ finished = FALSE
    /\ pc = "idle"
    /\ step = 0
    /\ turns = 0
    /\ last = [node |-> "none", ret |-> "none", llm |-> "none", before |-> "none"]
    /\ parked = NewSession(2)

\* The InterviewState of the session that runs.
RunningSession ==
    [id |-> 3 - parked.id, messages |-> messages, questions |-> questions,
     current_question_id |-> current_question_id, finished |-> finished, turns |-> turns]

\* A turn of the running session starts with a new user utterance.
SessionTurn ==
    /\ pc = "idle"
    /\ turns < SessionTurns
    /\ messages' = Append(messages, HumanMessage(Len(UserMessages(messages)) + 1))
    /\ pc' = Edge("__start__")
    /\ step' = 0
    /\ turns' = turns + 1
    /\ last' = [node |-> "__start__", ret |-> "new", llm |-> "none", before |-> "none"]
    /\ UNCHANGED <<parked, bank, questions, current_question_id, finished>>

\* Between two turns the other session is the one that is invoked next: the
\* graph is handed its InterviewState, and the state of the session that ran
\* waits in its place.
SwitchSession ==
    /\ pc = "idle"
    /\ parked' = RunningSession
    /\ messages' = parked.messages
    /\ questions' = parked.questions
    /\ current_question_id' = parked.current_question_id
    /\ finished' = parked.finished
    /\ turns' = parked.turns
    /\ step' = 0
    /\ last' = [node |-> "none", ret |-> "switch", llm |-> "none", before |-> "none"]
    /\ UNCHANGED <<bank, pc>>

NextSessions ==
    \/ SessionTurn
    \/ SwitchSession
    \/ AnalyzeAnswer
    \/ SelectQuestion
    \/ Converse
    \/ ToolDispatch

SpecSessions == InitSessions /\ [][NextSessions]_vars

-----------------------------------------------------------------------------
(* Properties of the session *)

\* Every record of the session is complete (the records not built yet are not_started).
EveryRecordComplete ==
    \A qid \in DOMAIN EnsureInitialised(questions) : StatusOf(questions, qid) = "complete"

\* A SelectQuestion step that returns a newly selected question.
Selects == pc = "select_question" /\ last'.ret = "selected"

\* C1. Status monotonicity: a record whose status is complete keeps that
\* status over every step of the session, whatever the answer analysis judges.
StatusMonotonic ==
    [][\A qid \in DOMAIN questions :
          questions[qid].status = "complete" =>
              qid \in DOMAIN questions' /\ questions'[qid].status = "complete"]_vars

\* An answer was analysed against a record that was already complete, the
\* judgement was not_started, and the record is still complete.
StatusMonotonicWitness ==
    /\ last.node = "answer_analysis" /\ last.ret = "analysed"
    /\ last.before = "complete" /\ last.llm = "not_started"
    /\ questions[current_question_id].status = "complete"

\* C2. The record a SelectQuestion step makes current had status not_started
\* immediately before that step, for every reply of the model.
SelectsOnlyNotStarted ==
    [][Selects => StatusOf(questions, current_question_id') = "not_started"]_vars

\* A question was selected on a reply that names no candidate, in a session
\* that already holds a complete record.
SelectsOnlyNotStartedWitness ==
    /\ last.node = "select_question" /\ last.ret = "selected" /\ last.llm = "unknown"
    /\ \E qid \in DOMAIN questions : questions[qid].status = "complete"
    /\ questions[current_question_id].status = "in_progress"

\* C3. Priority ordering: when a SelectQuestion step selects a question of
\* priority p', no record of a priority below p' is not_started at that moment.
PriorityOrdering ==
    [][Selects =>
          \A qid \in DOMAIN EnsureInitialised(questions) :
              EnsureInitialised(questions)[qid].priority
                  < EnsureInitialised(questions)[current_question_id'].priority
              => StatusOf(questions, qid) # "not_started"]_vars

\* A question of level 1 was selected, by the model's choice, in a session
\* whose bank also holds a question of level 0.
PriorityOrderingWitness ==
    /\ last.node = "select_question" /\ last.ret = "selected" /\ last.llm = "chosen"
    /\ questions[current_question_id].priority = 1
    /\ \E qid \in DOMAIN questions : questions[qid].priority = 0

\* The closing messages of a transcript.
ClosingMessages(msgs) == Len(SelectSeq(msgs, LAMBDA m : m.kind = "closing"))

\* C4. Termination message: once every record is complete the session is
\* finished and its transcript holds exactly one closing message; stated at
\* the end of a turn of a finished session.
TerminationMessage ==
    (pc = "idle" /\ finished) => ClosingMessages(messages) = 1

\* C5. A SelectQuestion step that runs in a state where every record is
\* complete sets finished and clears the current question, for any transcript length.
AllCompleteFinishes ==
    [][(pc = "select_question" /\ EveryRecordComplete)
          => (finished' /\ current_question_id' = NoQuestion)]_vars

\* C5 as amended: the same for a transcript of more than one entry; with at
\* most one entry the step only builds the records.
AllCompleteFinishesAfterFirst ==
    [][(pc = "select_question" /\ EveryRecordComplete)
          => IF Len(messages) > 1
             THEN finished' /\ current_question_id' = NoQuestion
             ELSE /\ finished' = finished
                  /\ current_question_id' = current_question_id
                  /\ questions' = EnsureInitialised(questions)]_vars

\* A SelectQuestion step found the records of a non-empty bank all complete,
\* the last of them completed in this turn, and finished the session.
AllCompleteFinishesWitness ==
    /\ last.node = "select_question" /\ last.ret = "all_complete" /\ last.before = "complete"
    /\ questions # <<>>
    /\ finished /\ current_question_id = NoQuestion

\* C6. In every reachable state, finished is true if and only if every
\* record is complete (no step of the graph force-ends a session).
FinishedIffAllComplete ==
    finished <=> EveryRecordComplete

\* The SelectQuestion step of a turn after the first has run in this turn.
AfterSelect == turns >= 2 /\ pc \in {"interview_agent", "tools", "idle", "error"}

\* C6 as amended: the equivalence holds from the SelectQuestion step of every
\* turn after the first until the end of that turn.
FinishedIffAllCompleteAfterSelect ==
    AfterSelect => (finished <=> EveryRecordComplete)

\* A turn ended with a finished session over a bank of two questions, both complete.
FinishedIffAllCompleteWitness ==
    /\ pc = "idle" /\ turns >= 2
    /\ finished /\ Len(questions) = 2 /\ EveryRecordComplete

\* C7. In every reachable state, after every node, the current question,
\* when set, is not complete.
CurrentNotComplete ==
    current_question_id # NoQuestion =>
        StatusOf(questions, current_question_id) # "complete"

\* No not_started record has a level of PRIORITIES.
NoCandidate(qs) ==
    \A qid \in DOMAIN qs :
        qs[qid].status = "not_started" =>
            \A i \in 1..Len(PRIORITIES) : qs[qid].priority # PRIORITIES[i]

\* C7 as amended: except between AnalyzeAnswer and the SelectQuestion step
\* that follows it, the current question, when set, is not complete, unless
\* no not_started record has a level of PRIORITIES.
CurrentNotCompleteAfterSelect ==
    (pc # "select_question" /\ current_question_id # NoQuestion) =>
        \/ StatusOf(questions, current_question_id) # "complete"
        \/ NoCandidate(questions)

\* A SelectQuestion step replaced a current question that was complete by a new one.
CurrentNotCompleteWitness ==
    /\ last.node = "select_question" /\ last.ret = "selected" /\ last.before = "complete"
    /\ questions[current_question_id].status = "in_progress"

\* The not_started records of level 0, by id (ids follow the source order).
PriorityZeroCandidates ==
    {qid \in DOMAIN EnsureInitialised(questions) :
        /\ EnsureInitialised(questions)[qid].priority = 0
        /\ StatusOf(questions, qid) = "not_started"}

FirstPriorityZeroCandidate ==
    CHOOSE qid \in PriorityZeroCandidates : \A other \in PriorityZeroCandidates : qid <= other

\* The step makes the first level-0 candidate current and in_progress, with no model call.
SelectsFirstPriorityZero ==
    /\ current_question_id' = FirstPriorityZeroCandidate
    /\ questions'[FirstPriorityZeroCandidate].status = "in_progress"
    /\ last'.ret = "selected" /\ last'.llm = "none"

\* C9. Early selection: with a not_started record of level 0 and a transcript
\* of at most 2 entries, the SelectQuestion step makes the first level-0
\* candidate current and in_progress, with no model call.
EarlySelection ==
    [][(pc = "select_question" /\ PriorityZeroCandidates # {} /\ Len(messages) <= 2)
          => SelectsFirstPriorityZero]_vars

\* C9 as amended: so it is for a transcript of exactly 2 entries when no
\* question is current or the current one is complete; with fewer entries
\* the step selects nothing and changes no status.
EarlySelectionAtTwo ==
    [][(pc = "select_question" /\ PriorityZeroCandidates # {} /\ Len(messages) <= 2)
          => IF Len(messages) = 2
             THEN (current_question_id = NoQuestion
                   \/ StatusOf(questions, current_question_id) = "complete")
                  => SelectsFirstPriorityZero
             ELSE /\ current_question_id' = current_question_id
                  /\ questions' = EnsureInitialised(questions)
                  /\ last'.llm = "none"]_vars

\* On a transcript of 2 entries the only level-0 candidate, the second
\* question of its bank, became current and in_progress without a model call.
EarlySelectionWitness ==
    /\ last.node = "select_question" /\ last.ret = "selected" /\ last.llm = "none"
    /\ Len(messages) = 2
    /\ Len(bank) = 2 /\ bank[1] # 0 /\ bank[2] = 0
    /\ current_question_id = 2 /\ questions[2].status = "in_progress"

\* The fields of the current record that an AnalyzeAnswer step with a failed call leaves.
FallbackRecorded ==
    /\ questions'[current_question_id].analysis.text = "Analysis error"
    /\ Len(questions'[current_question_id].answers)
           = Len(questions[current_question_id].answers) + 1

\* An AnalyzeAnswer step whose structured call fails while a current question exists.
AnalysisFails ==
    pc = "answer_analysis" /\ last'.ret = "analysed" /\ last'.llm = "failed"

\* C10. Analyzer fallback: after a failed structured call the current record
\* is partial, its analysis carries the error marker and it holds one more
\* answer, for every number of answers recorded before.
AnalyzerFallback ==
    [][AnalysisFails =>
          /\ FallbackRecorded
          /\ questions'[current_question_id].status = "partial"]_vars

\* C10 as amended: the record is partial when it held no answer before and
\* complete, with the count note after the error marker, when it held one or more.
AnalyzerFallbackByCount ==
    [][AnalysisFails =>
          /\ FallbackRecorded
          /\ IF questions[current_question_id].answers = <<>>
             THEN /\ questions'[current_question_id].status = "partial"
                  /\ ~questions'[current_question_id].analysis.note
             ELSE /\ questions'[current_question_id].status = "complete"
                  /\ questions'[current_question_id].analysis.note]_vars

\* The structured call failed on the second answer to a question: the record
\* is complete, with the error marker, the count note and two answers.
AnalyzerFallbackWitness ==
    /\ last.node = "answer_analysis" /\ last.ret = "analysed" /\ last.llm = "failed"
    /\ last.before = "partial"
    /\ questions[current_question_id].status = "complete"
    /\ questions[current_question_id].analysis = [text |-> "Analysis error", note |-> TRUE]
    /\ Len(questions[current_question_id].answers) = 2

\* C8. Selector idempotence: a run of SelectQuestion that follows another
\* run, with no AnalyzeAnswer step in between and the transcript unchanged,
\* leaves the current question, every record and finished as the first run
\* left them, for every reply of the model.
SelectorIdempotent ==
    [][(pc = "select_question" /\ last.node = "select_question")
          => /\ current_question_id' = current_question_id
             /\ questions' = questions
             /\ finished' = finished]_vars

\* The first run selected a question on a transcript long enough for the
\* model to be asked, and the second run kept it.
SelectorIdempotentWitness ==
    /\ last.node = "select_question" /\ step = 2
    /\ last.before = "selected" /\ last.ret = "keep_current"
    /\ Len(messages) > 2
    /\ questions[current_question_id].status = "in_progress"

\* ---------------------------------------------------------------------------
\* The turn: analysis, first turn, ordering, routing and tools.

LastMessage == messages[Len(messages)]

Appended == messages'[Len(messages')]

AnswersOf(qs, qid) == IF qid \in DOMAIN qs THEN qs[qid].answers ELSE <<>>

\* C11: an analysis step that has a current question and a new utterance
\* appends that utterance once to the question's answers; without a current
\* question, or without an utterance newer than the previous analysis, it
\* leaves the records as they are and asks the model nothing.
AnalysisOncePerUtterance ==
    [][pc = "answer_analysis" =>
         IF current_question_id # NoQuestion /\ last.ret = "new"
         THEN AnswersOf(questions', current_question_id)
                = Append(AnswersOf(EnsureInitialised(questions), current_question_id),
                         Len(UserMessages(messages)))
         ELSE questions' = EnsureInitialised(questions) /\ last'.llm = "none"]_vars

\* C12: in the first turn no node asks the model, no question is selected, no
\* tool runs, and the turn ends with the welcome as its only new message.
FirstTurnWelcome ==
    turns = 1 =>
        /\ last.llm = "none"
        /\ current_question_id = NoQuestion
        /\ \A q \in DOMAIN questions : questions[q].status = "not_started"
        /\ pc \notin {"tools", "error"}
        /\ pc = "idle" => messages = <<HumanMessage(1), make_welcome_message>>

\* The first turn has ended on a bank that holds questions.
FirstTurnWelcomeWitness ==
    /\ turns = 1 /\ pc = "idle" /\ bank # <<>>
    /\ last.node = "interview_agent" /\ last.ret = "welcome"
    /\ LastMessage.kind = "welcome"

\* C13 as stated: with an empty bank the session has finished when its first
\* turn ends, and no question is selected.
EmptyBankFinishesInFirstTurn ==
    (bank = <<>> /\ turns = 1 /\ pc = "idle") =>
        (finished /\ current_question_id = NoQuestion)

SelectorRanAfterFirstTurn ==
    turns > 2 \/ (turns = 2 /\ pc \notin {"answer_analysis", "select_question"})

\* C13: with an empty bank no question is ever selected, and the session has
\* finished exactly from the selection step of its second turn on.
EmptyBankFinishesInSecondTurn ==
    bank = <<>> =>
        /\ current_question_id = NoQuestion
        /\ questions = <<>>
        /\ finished <=> SelectorRanAfterFirstTurn

\* The second turn of a session on an empty bank has ended, finished.
EmptyBankFinishesWitness ==
    bank = <<>> /\ turns = 2 /\ pc = "idle" /\ finished /\ last.node = "interview_agent"

AllCompleteSkipsConverse ==
    (last.node = "select_question" /\ last.ret = "all_complete") =>
        (pc = "idle" /\ messages # <<>> /\ LastMessage.kind = "closing")

\* C16: a conversation step on the last step whose reply requests tools
\* appends the apology, which requests none, and ends the turn; no
\* conversation step on the last step leads to the tool node.
LastStepApology ==
    [][(pc = "interview_agent" /\ is_last_step) =>
          /\ pc' # "tools"
          /\ (last'.ret = "general" /\ RequestsTools(last'.llm)) =>
                (messages' = Append(messages, AIMessage("apology", FALSE, 0)) /\ pc' = "idle")]_vars

\* A reply that requested tools on the last step was replaced by the apology.
LastStepApologyWitness ==
    /\ last.node = "interview_agent" /\ last.ret = "general" /\ RequestsTools(last.llm)
    /\ step >= StepBudget
    /\ LastMessage.kind = "apology" /\ pc = "idle"

\* C17: after a conversation step the tool node is next when the message
\* appended requests tools, and the turn ends when it requests none; the tool
\* node leads back to the conversation; the welcome and a presented question
\* end the turn, so the tool node follows the general branch only.
RoutingAfterConverse ==
    [][/\ (pc = "interview_agent" /\ messages' # messages) =>
              pc' = (IF Appended.tool_calls THEN "tools" ELSE "idle")
       /\ (pc = "interview_agent" /\ last'.ret \in {"welcome", "question"}) => pc' = "idle"
       /\ (pc' = "tools" /\ pc # "tools") => (pc = "interview_agent" /\ last'.ret = "general")
       /\ pc = "tools" => pc' = "interview_agent"]_vars

\* The tool node has run and the conversation is next.
RoutingAfterConverseWitness ==
    pc = "interview_agent" /\ last.node = "tools" /\ LastMessage.role = "tool"

\* C18 as stated: once the end_interview tool has run, the session has
\* finished and the closing message is in the transcript.
EndInterviewToolFinishes ==
    (last.node = "tools" /\ last.ret = "end_interview") =>
        (finished /\ \E i \in 1..Len(messages) : messages[i].kind = "closing")

\* C19: from a finished session every step leaves it finished, selects no
\* question, changes no record and presents no question.
FinishedStaysFinished ==
    [][finished =>
         /\ finished'
         /\ current_question_id' = NoQuestion
         /\ questions' = questions
         /\ messages' # messages => Appended.kind \notin {"question", "contextualized"}]_vars

\* A turn after the one that finished the session has run the selection again.
FinishedStaysFinishedWitness ==
    /\ finished /\ bank # <<>> /\ EveryRecordComplete
    /\ last.node = "select_question" /\ last.before = "none" /\ last.ret = "all_complete"

PresentsCurrent ==
    /\ last'.ret = "question"
    /\ messages' = Append(messages, Appended)
    /\ Appended.kind \in {"question", "contextualized"}
    /\ Appended.ref = current_question_id
    /\ ~Appended.tool_calls

\* C20 as stated: after the first turn a conversation step that finds the
\* current question in progress or partial presents that question, not the
\* general model turn.
PresentsInProgressOrPartial ==
    [][(pc = "interview_agent" /\ Len(messages) # 1
          /\ StatusOf(questions, current_question_id) \in {"in_progress", "partial"})
       => PresentsCurrent]_vars

\* C20: after the first turn a conversation step that finds the current
\* question in progress presents that question, not the general model turn;
\* one that finds it partial takes the general model turn.
PresentsInProgress ==
    [][/\ (pc = "interview_agent" /\ Len(messages) # 1
             /\ StatusOf(questions, current_question_id) = "in_progress")
          => PresentsCurrent
       /\ (pc = "interview_agent" /\ Len(messages) # 1
             /\ StatusOf(questions, current_question_id) = "partial")
          => last'.ret = "general"]_vars

\* A question in progress was presented in the model's rephrasing.
PresentsInProgressWitness ==
    /\ last.node = "interview_agent" /\ last.ret = "question" /\ last.before = "in_progress"
    /\ LastMessage.kind = "contextualized" /\ LastMessage.ref = current_question_id
    /\ pc = "idle"

\* ---------------------------------------------------------------------------
\* Fallbacks, population of the records, completion policy.

\* C21: a selection whose model call failed, or returned an identifier that is
\* no candidate, has made current the first not_started question of the
\* selected question's level in source order, and the turn goes on to the
\* conversation step.
SelectorFallback ==
    (last.node = "select_question" /\ last.llm \in {"failed", "unknown"}) =>
        /\ pc = "interview_agent"
        /\ last.ret = "selected"
        /\ current_question_id \in DOMAIN questions
        /\ questions[current_question_id].status = "in_progress"
        /\ \A qid \in DOMAIN questions :
              (qid < current_question_id
                 /\ questions[qid].priority = questions[current_question_id].priority)
              => questions[qid].status # "not_started"

\* The model call of a selection failed while the level had a second
\* candidate, which is still not_started.
SelectorFallbackWitness ==
    /\ last.node = "select_question" /\ last.llm = "failed" /\ last.ret = "selected"
    /\ pc = "interview_agent"
    /\ current_question_id \in DOMAIN questions
    /\ \E qid \in DOMAIN questions :
          /\ qid > current_question_id
          /\ questions[qid].priority = questions[current_question_id].priority
          /\ questions[qid].status = "not_started"

\* C22: evaluating the route on a transcript whose last entry is not an
\* assistant message raises the error: the route is neither the tool node nor
\* the end of the turn, and the transcript is left as it is.
MalformedTranscriptIsFatal ==
    [][(pc = "route_model_output" /\ messages # <<>> /\ LastMessage.role # "ai")
       => (pc' = "error" /\ messages' = messages)]_vars

\* The route was evaluated on a transcript that ends with a tool message.
MalformedTranscriptWitness ==
    /\ last.node = "route_model_output" /\ pc = "error"
    /\ messages # <<>> /\ LastMessage.role = "tool"

\* The records of a session that has asked nothing yet.
FreshRecords ==
    [i \in 1..Len(bank) |->
        [priority |-> bank[i], status |-> "not_started", answers |-> <<>>,
         analysis |-> [text |-> "", note |-> FALSE]]]

IsPrefix(s, t) == Len(s) <= Len(t) /\ \A i \in 1..Len(s) : s[i] = t[i]

\* C24: the first node that finds the mapping empty builds one fresh record
\* for each question of the bank; from then on every step keeps the set of
\* ids, keeps the answers a record holds, and sets no record that has been
\* started or analysed back to not_started or to the empty analysis.
PopulatedOnce ==
    [][/\ (questions = <<>> /\ pc = "answer_analysis") => questions' = FreshRecords
       /\ questions # <<>> =>
            /\ DOMAIN questions' = DOMAIN questions
            /\ \A qid \in DOMAIN questions :
                  /\ questions'[qid].priority = questions[qid].priority
                  /\ IsPrefix(questions[qid].answers, questions'[qid].answers)
                  /\ questions[qid].status # "not_started"
                        => questions'[qid].status # "not_started"
                  /\ questions[qid].analysis.text # ""
                        => questions'[qid].analysis.text # ""]_vars

\* The selection ran on a mapping that already holds an answered record.
PopulatedOnceWitness ==
    /\ last.node = "select_question" /\ turns >= 3
    /\ DOMAIN questions = 1..Len(bank)
    /\ \E qid \in DOMAIN questions :
          questions[qid].answers # <<>> /\ questions[qid].analysis.text # ""

\* The judgement an analysis step worked with: the model's, or partial when
\* the call failed.
Judgement == IF last'.llm = "failed" THEN "partial" ELSE last'.llm

\* C25: an analysis step on a current question appends the latest utterance
\* to its answers and sets its status by the judgement and the number of
\* answers it then holds: complete if the judgement is complete or it holds
\* two or more, else partial if the judgement is partial, else in_progress.
CompletionPolicy ==
    [][(pc = "answer_analysis" /\ current_question_id \in DOMAIN EnsureInitialised(questions))
       => LET before == EnsureInitialised(questions)[current_question_id]
              after == questions'[current_question_id]
          IN  /\ after.answers = Append(before.answers, Len(UserMessages(messages)))
              /\ after.status =
                    IF Judgement = "complete" \/ Len(after.answers) >= 2 THEN "complete"
                    ELSE IF Judgement = "partial" THEN "partial"
                    ELSE "in_progress"]_vars

\* The first answer to a question was judged not_started and the record is
\* in_progress.
CompletionPolicyWitness ==
    /\ last.node = "answer_analysis" /\ last.ret = "analysed" /\ last.llm = "not_started"
    /\ current_question_id \in DOMAIN questions
    /\ Len(questions[current_question_id].answers) = 1
    /\ questions[current_question_id].status = "in_progress"

\* Question a comes before question b in the bank sorted by ascending
\* priority, ties broken by source order.
Precedes(a, b) == bank[a] < bank[b] \/ (bank[a] = bank[b] /\ a < b)

\* C26: a selection that did not follow a choice of the model makes current
\* the first question, in the bank sorted by ascending priority and then by
\* source order, that was not_started: every question before it in that order
\* had been started, so the questions are selected in that order.
FallbackOrder ==
    [][(Selects /\ last'.llm # "chosen")
       => \A qid \in 1..Len(bank) :
             Precedes(qid, current_question_id') => StatusOf(questions, qid) # "not_started"]_vars

\* The second selection of a session fell back and took the question that is
\* earlier in the source but of a less urgent level.
FallbackOrderWitness ==
    /\ bank = <<1, 0>>
    /\ last.node = "select_question" /\ last.ret = "selected"
    /\ last.llm \in {"failed", "unknown"}
    /\ current_question_id = 1
    /\ questions[2].status = "complete"

\* C27: a conversation step that presents the current question appends the
\* question's own text when the rephrasing call failed and the rephrasing when
\* it succeeded, and in both cases leaves the records, the current question
\* and finished as they were.
ContextualizerFallback ==
    [][(pc = "interview_agent" /\ last'.ret = "question" /\ last'.llm # "none")
       => /\ last'.llm = "failed" =>
                messages' = Append(messages, AIMessage("question", FALSE, current_question_id))
          /\ last'.llm # "failed" =>
                messages' = Append(messages,
                                   AIMessage("contextualized", FALSE, current_question_id))
          /\ questions' = questions
          /\ current_question_id' = current_question_id
          /\ finished' = finished]_vars

\* The rephrasing call failed and the question was presented unchanged.
ContextualizerFallbackWitness ==
    /\ last.node = "interview_agent" /\ last.ret = "question" /\ last.llm = "failed"
    /\ LastMessage = AIMessage("question", FALSE, current_question_id)
    /\ pc = "idle"

\* Every record that is in_progress or partial is the current question's.
ActiveIsCurrent ==
    \A qid \in DOMAIN questions :
        questions[qid].status \in {"in_progress", "partial"} => qid = current_question_id

\* C28: in every state the only record that can be in_progress or partial is
\* the current question's, and a step replaces or clears the current question
\* only when there was none or its record was complete.
SingleActiveQuestion ==
    [][/\ ActiveIsCurrent'
       /\ current_question_id' # current_question_id
             => (current_question_id = NoQuestion
                   \/ StatusOf(questions, current_question_id) = "complete")]_vars

\* A partial question was kept by the selection while another question is
\* still not_started.
SingleActiveQuestionWitness ==
    /\ last.node = "select_question" /\ last.ret = "keep_current" /\ last.before = "partial"
    /\ current_question_id \in DOMAIN questions
    /\ questions[current_question_id].status = "partial"
    /\ \E qid \in DOMAIN questions : questions[qid].status = "not_started" /\ bank[qid] = 0

\* ---------------------------------------------------------------------------
\* The session of a user who answers.

\* C29: with a bank of levels of PRIORITIES and a new utterance in every turn,
\* no record ever holds more than two answers, and a record that holds two is
\* complete.
AnswerBound ==
    (InRange(bank) /\ Reruns = 0) =>
        \A qid \in DOMAIN questions :
            /\ Len(questions[qid].answers) <= 2
            /\ Len(questions[qid].answers) = 2 => questions[qid].status = "complete"

\* Both questions of a bank were answered twice, in a session long enough for
\* a third answer.
AnswerBoundWitness ==
    /\ Len(bank) = 2 /\ InRange(bank) /\ Reruns = 0 /\ turns > 4
    /\ \A qid \in DOMAIN questions :
          Len(questions[qid].answers) = 2 /\ questions[qid].status = "complete"
    /\ DOMAIN questions = 1..2

\* C30: with a non-empty bank of N questions of levels of PRIORITIES and a
\* new utterance in every turn, the session whose turn 2N + 2 has ended is
\* finished and every record is complete, whatever the model calls returned.
SessionCompletes ==
    (bank # <<>> /\ InRange(bank) /\ Reruns = 0 /\ turns = 2 * Len(bank) + 2 /\ pc = "idle")
        => (finished /\ questions # <<>> /\ EveryRecordComplete)

\* A session on two questions has finished only in its last turn: the second
\* question got its second answer there, after a failed analysis.
SessionCompletesWitness ==
    /\ Len(bank) = 2 /\ InRange(bank) /\ Reruns = 0
    /\ turns = 2 * Len(bank) + 2 /\ pc = "idle"
    /\ finished /\ EveryRecordComplete
    /\ \A qid \in DOMAIN questions :
          Len(questions[qid].answers) = 2 /\ questions[qid].analysis.text = "Analysis error"

\* ---------------------------------------------------------------------------
\* Two sessions.

\* C23: the bank never changes; a step of the running session leaves the
\* waiting session's InterviewState as it is; when the other session is
\* invoked, it finds its InterviewState as it left it and the state of the
\* session that ran waits unchanged; and a session builds its records from the
\* bank alone, whatever the other session has done.
SessionIsolation ==
    [][/\ bank' = bank
       /\ parked'.id = parked.id => parked' = parked
       /\ parked'.id # parked.id => (parked' = RunningSession /\ RunningSession' = parked)
       /\ (questions = <<>> /\ pc = "answer_analysis") => questions' = FreshRecords]_vars

\* The running session builds its records while the session that waits has a
\* question in progress.
SessionIsolationWitness ==
    /\ parked.id = 1 /\ parked.current_question_id # NoQuestion
    /\ parked.questions # <<>>
    /\ parked.questions[parked.current_question_id].status = "in_progress"
    /\ last.node = "answer_analysis" /\ turns = 1
    /\ questions = FreshRecords

\* ---------------------------------------------------------------------------
\* Levels outside the list, utterances that are not recorded.

\* The questions of the bank whose priority is none of the levels 0 to 5.
OutsideLevels == {qid \in 1..Len(bank) : bank[qid] \notin 0..5}

\* No question of OutsideLevels has been selected, and with such a question
\* in the bank the session has not finished.
OutsideNeverSelected ==
    /\ \A qid \in OutsideLevels :
          qid # current_question_id /\ StatusOf(questions, qid) = "not_started"
    /\ OutsideLevels # {} => ~finished

\* An analysis step on a complete current record appends the latest utterance to it.
AppendsToComplete ==
    (pc = "answer_analysis" /\ StatusOf(questions, current_question_id) = "complete")
        => /\ current_question_id' = current_question_id
           /\ questions'[current_question_id].status = "complete"
           /\ questions'[current_question_id].answers
                 = Append(questions[current_question_id].answers, Len(UserMessages(messages)))

\* C31 as stated: a question of a level outside 0..5 is never selected and the
\* session never finishes; a selection step that finds no question left to
\* select leaves the current question at a complete record, to which the
\* later analysis steps append.
OutsideLevelsStall ==
    [][/\ OutsideNeverSelected'
       /\ (pc = "select_question" /\ last'.ret = "no_candidate")
             => /\ current_question_id' # NoQuestion
                /\ StatusOf(questions', current_question_id') = "complete"
       /\ AppendsToComplete]_vars

\* C31: a question of a level outside 0..5 is never selected and the session
\* never finishes; a selection step that finds no question left to select
\* leaves the current question as it was: at a complete record when the bank
\* has a question of a level in 0..5, to which the later analysis steps
\* append, and at none when it has no such question.
OutsideLevelsStallWithInRange ==
    [][/\ OutsideNeverSelected'
       /\ (pc = "select_question" /\ last'.ret = "no_candidate")
             => /\ current_question_id' = current_question_id
                /\ questions' = EnsureInitialised(questions)
                /\ IF OutsideLevels = 1..Len(bank)
                   THEN current_question_id' = NoQuestion
                   ELSE /\ current_question_id' # NoQuestion
                        /\ StatusOf(questions', current_question_id') = "complete"
       /\ AppendsToComplete]_vars

\* With a question of an outside level left not_started, an analysis step has
\* appended a second answer to the complete record the selection had left current.
OutsideLevelsStallWitness ==
    /\ OutsideLevels # {} /\ ~finished
    /\ last.node = "answer_analysis" /\ last.ret = "analysed" /\ last.before = "complete"
    /\ current_question_id \in DOMAIN questions
    /\ questions[current_question_id].status = "complete"
    /\ Len(questions[current_question_id].answers) = 2
    /\ \A qid \in OutsideLevels : questions[qid].status = "not_started"

\* C32 as stated: a step changes the answers of a record only if it is the
\* analysis step of a turn that started with a new utterance and with a
\* current question; the first two utterances of a session are in no record's
\* answers, and a finished session's records do not change.
UnrecordedUtterances ==
    [][/\ (\E qid \in DOMAIN questions' :
              questions'[qid].answers # AnswersOf(questions, qid))
          => (pc = "answer_analysis" /\ current_question_id # NoQuestion /\ last.ret = "new")
       /\ \A qid \in DOMAIN questions' :
             \A i \in 1..Len(questions'[qid].answers) : questions'[qid].answers[i] > 2
       /\ finished => questions' = questions]_vars

====
